---- MODULE Spec2Model ----
(***************************************************************************)
(* Model of examples/c_tebd.py: three driver functions over the TEBD       *)
(* engine, and the __main__ block that calls them.                         *)
(*                                                                         *)
(* Real numbers (g, tmax, dt, dt_measure, J) are fixed-point integers in   *)
(* units of 1/1000.  The input sets avoid the values whose binary double   *)
(* is on the other side of a rounding tie than the decimal literal (for    *)
(* instance tmax = 0.075 or g = 1.015); on every value used here the       *)
(* double computation of the source and the exact one agree.               *)
(* Energies are integers in an arbitrary unit.                             *)
(***************************************************************************)
EXTENDS Integers, Sequences, FiniteSets, TLC

VARIABLES
    entry,      \* "script": run as __main__; "import": drivers called by an importer
    mainpc,     \* position of the __main__ block (line 136, 138, 140, or past the end)
    mainCalls,  \* the invocations the __main__ block has started, in order
    nsep,       \* separator lines printed by the __main__ block
    ncalls,     \* driver invocations started so far; the id of the current one
    status,     \* "idle" (no driver running), "running", "failed" (uncaught exception)
    fn,         \* the driver that is running, or ran last
    pc,         \* position inside the driver
    args,       \* arguments of the current invocation
    M,          \* local M: the model
    psi,        \* local psi: the state (MPS)
    eng,        \* local eng: the TEBD engine
    E,          \* local E
    S,          \* local S of the lightcone driver: one entry per recording
    n,          \* loop iterations completed in the lightcone driver
    rng,        \* length of the range(...) the loop iterates over: fixed at loop entry
    log,        \* external calls made by the current invocation, in order
    out,        \* lines printed by the current invocation, in order
    ret,        \* value handed back by the last return, until the next call
    files,      \* names of the files on disk
    written,    \* names of the files written by the current invocation, in order
    lastSave    \* the most recent plt.savefig, and whether it replaced a file

vars == <<entry, mainpc, mainCalls, nsep, ncalls, status, fn, pc, args, M, psi, eng,
          E, S, n, rng, log, out, ret, files, written, lastSave>>

(***************************************************************************)
(* Bounds and input sets.                                                  *)
(***************************************************************************)
MaxCalls == 2

LVals == {10, 19, 20}
LightconeLVals == {19, 20}
GVals == {1000, 1004, 1500}
TmaxVals == {-100, 24, 25, 76}
DtVals == {10, 30, 100}
EnergyVals == {-2, -1}

(***************************************************************************)
(* Program constants.                                                      *)
(***************************************************************************)
dt_measure == 50
ED_MAX_L == 20
UNIT_CELL_L == 2
J == 1000

(***************************************************************************)
(* Values.                                                                 *)
(***************************************************************************)
NoArgs == [L |-> 0, g |-> 0, tmax |-> 0, dt |-> 0]
NoM == [owner |-> 0, L |-> 0, J |-> 0, g |-> 0, bc_MPS |-> "none"]
NoPsi == [owner |-> 0, from |-> "none", product_state |-> <<>>, bc |-> "none",
          ops |-> <<>>, runs |-> 0]
NoEng == [owner |-> 0, psi |-> 0, M |-> 0, dt |-> 0, N_steps |-> 0, evolved_time |-> 0]
NoRet == [set |-> FALSE, E |-> 0, psi |-> NoPsi, M |-> NoM]
NoSave == [set |-> FALSE, inv |-> 0, name |-> <<"", 0, "">>, L |-> 0, g |-> 0,
           tmax |-> 0, dt |-> 0, replaced |-> "nothing"]

Ev(name, obj, a, b, c) == [ev |-> name, inv |-> ncalls, obj |-> obj, a |-> a, b |-> b, c |-> c]

Max(a, b) == IF a >= b THEN a ELSE b

RECURSIVE SumSeq(_)
SumSeq(s) == IF s = <<>> THEN 0 ELSE Head(s) + SumSeq(Tail(s))

\* int(x) of Python for the rational num/den, den > 0: truncation towards zero.
PyInt(num, den) == IF num >= 0 THEN num \div den ELSE -((-num) \div den)

\* ["up"] * k
Repeat(x, k) == [i \in 1..k |-> x]

\* '{x:.2f}'.format(x=...): a value in 1/1000 rounded to 1/100 (no ties in the inputs).
Fmt2(x) == IF x >= 0 THEN (x + 5) \div 10 ELSE -((5 - x) \div 10)

(***************************************************************************)
(* The library (tenpy, tfi_exact, d_dmrg, matplotlib), as far as the       *)
(* drivers depend on it.                                                   *)
(***************************************************************************)
\* M.lat.N_sites of a TFIChain built with L sites
N_sites(m) == m.L

\* M.bond_energies(psi): one entry per bond, L - 1 for a finite chain and L for an
\* infinite one; the first bond may differ from the others.
bond_energies(m) ==
    LET nb == IF m.bc_MPS = "finite" THEN m.L - 1 ELSE m.L
    IN  {[b \in 1..nb |-> IF b = 1 THEN e1 ELSE e2] : e1 \in EnergyVals, e2 \in EnergyVals}

\* eng.run(): N_steps steps of dt each
Engine_run(e) == [e EXCEPT !.evolved_time = @ + e.N_steps * e.dt]

(***************************************************************************)
(* Calling a driver: fresh locals, and the driver's first prints.          *)
(***************************************************************************)
At(f, p) == status = "running" /\ fn = f /\ pc = p

\* Mutant: M, psi and eng are module-level names that survive the call.
Enter_globals(f, a, first, header) ==
    /\ status' = "running"
    /\ fn' = f
    /\ pc' = first
    /\ args' = a
    /\ ncalls' = ncalls + 1
    /\ E' = 0
    /\ S' = <<>>
    /\ n' = 0
    /\ rng' = 0
    /\ log' = <<>>
    /\ out' = header
    /\ ret' = NoRet
    /\ written' = <<>>
    /\ UNCHANGED <<M, psi, eng, files, lastSave>>

Enter(f, a, first, header) ==
    /\ status' = "running"
    /\ fn' = f
    /\ pc' = first
    /\ args' = a
    /\ ncalls' = ncalls + 1
    /\ M' = NoM
    /\ psi' = NoPsi
    /\ eng' = NoEng
    /\ E' = 0
    /\ S' = <<>>
    /\ n' = 0
    /\ rng' = 0
    /\ log' = <<>>
    /\ out' = header
    /\ ret' = NoRet
    /\ written' = <<>>
    /\ UNCHANGED <<files, lastSave>>

\* lines 16-17
Call_finite(L, g) ==
    Enter("finite", [NoArgs EXCEPT !.L = L, !.g = g], "f19",
          << <<"finite TEBD, imaginary time evolution, transverse field Ising", 0, 0>>,
             <<"L, g", L, Fmt2(g)>> >>)

\* lines 53-54
Call_infinite(g) ==
    Enter("infinite", [NoArgs EXCEPT !.g = g], "i56",
          << <<"infinite TEBD, imaginary time evolution, transverse field Ising", 0, 0>>,
             <<"g", Fmt2(g), 0>> >>)

\* lines 90-91
Call_lightcone(L, g, tmax, dt) ==
    Enter("lightcone", [L |-> L, g |-> g, tmax |-> tmax, dt |-> dt], "t94",
          << <<"finite TEBD, real time evolution", 0, 0>>,
             <<"L, g", L, Fmt2(g)>>, <<"tmax, dt", Fmt2(tmax), dt>> >>)

mainVars == <<entry, mainpc, mainCalls, nsep>>
callVars == <<ncalls, status, fn, args>>
fsVars == <<files, written, lastSave>>

\* A return statement: the driver ends and hands v to its caller.
Return(v) ==
    /\ status' = "idle"
    /\ pc' = "returned"
    /\ ret' = v
    /\ UNCHANGED <<mainVars, ncalls, fn, args, M, psi, eng, E, S, n, rng, log, out, fsVars>>

(***************************************************************************)
(* example_TEBD_gs_tf_ising_finite, lines 15-49                            *)
(***************************************************************************)
\* lines 18-19
finite_TFIChain ==
    /\ At("finite", "f19")
    /\ M' = [owner |-> ncalls, L |-> args.L, J |-> J, g |-> args.g, bc_MPS |-> "finite"]
    /\ log' = Append(log, Ev("TFIChain", ncalls, args.L, J, args.g))
    /\ pc' = "f21"
    /\ UNCHANGED <<mainVars, callVars, psi, eng, E, S, n, rng, out, ret, fsVars>>

\* lines 20-21
finite_from_product_state ==
    /\ At("finite", "f21")
    /\ psi' = [NoPsi EXCEPT !.owner = ncalls, !.from = "product_state",
                            !.product_state = Repeat("up", N_sites(M)), !.bc = M.bc_MPS]
    /\ log' = Append(log, Ev("MPS.from_product_state", M.owner, N_sites(M), 0, 0))
    /\ pc' = "f33"
    /\ UNCHANGED <<mainVars, callVars, M, eng, E, S, n, rng, out, ret, fsVars>>

\* lines 22-33
finite_Engine ==
    /\ At("finite", "f33")
    /\ eng' = [NoEng EXCEPT !.owner = ncalls, !.psi = psi.owner, !.M = M.owner, !.N_steps = 10]
    /\ log' = Append(log, Ev("tebd.Engine", psi.owner, M.owner, 0, 0))
    /\ pc' = "f34"
    /\ UNCHANGED <<mainVars, callVars, M, psi, E, S, n, rng, out, ret, fsVars>>

\* line 34
finite_run_GS ==
    /\ At("finite", "f34")
    /\ psi' = [psi EXCEPT !.runs = @ + 1]
    /\ log' = Append(log, Ev("eng.run_GS", eng.owner, 0, 0, 0))
    /\ pc' = "f36"
    /\ UNCHANGED <<mainVars, callVars, M, eng, E, S, n, rng, out, ret, fsVars>>

\* lines 36-39: E = np.sum(M.bond_energies(psi))
finite_energy ==
    /\ At("finite", "f36")
    /\ \E be \in bond_energies(M) :
          /\ E' = SumSeq(be)
          /\ log' = Append(log, Ev("M.bond_energies", psi.owner, SumSeq(be), Len(be), 0))
          /\ out' = out \o << <<"E", SumSeq(be), 0>>, <<"final bond dimensions", 0, 0>> >>
    /\ pc' = "f40"
    /\ UNCHANGED <<mainVars, callVars, M, psi, eng, S, n, rng, ret, fsVars>>

\* lines 40-43
finite_magnetization ==
    /\ At("finite", "f40")
    /\ log' = log \o << Ev("psi.expectation_value Sigmax", psi.owner, 0, 0, 0),
                        Ev("psi.expectation_value Sigmaz", psi.owner, 0, 0, 0) >>
    /\ out' = out \o << <<"magnetization in X", 0, 0>>, <<"magnetization in Z", 0, 0>> >>
    /\ pc' = "f44"
    /\ UNCHANGED <<mainVars, callVars, M, psi, eng, E, S, n, rng, ret, fsVars>>

\* Mutant: if L <= 20
compare_to_exact_le(L) == L <= ED_MAX_L

\* line 44: if L < 20
compare_to_exact(L) == L < ED_MAX_L

\* lines 44-48
finite_compare_exact ==
    /\ At("finite", "f44")
    /\ compare_to_exact(args.L)
    /\ log' = Append(log, Ev("finite_gs_energy", 0, args.L, J, args.g))
    /\ out' = out \o << <<"Exact diagonalization: E", 0, 0>>, <<"relative error", E, 0>> >>
    /\ pc' = "f49"
    /\ UNCHANGED <<mainVars, callVars, M, psi, eng, E, S, n, rng, ret, fsVars>>

\* line 44, condition false
finite_skip_exact ==
    /\ At("finite", "f44")
    /\ ~compare_to_exact(args.L)
    /\ pc' = "f49"
    /\ UNCHANGED <<mainVars, callVars, M, psi, eng, E, S, n, rng, log, out, ret, fsVars>>

\* line 49
finite_return ==
    /\ At("finite", "f49")
    /\ Return([set |-> TRUE, E |-> E, psi |-> psi, M |-> M])

(***************************************************************************)
(* example_TEBD_gs_tf_ising_infinite, lines 52-86                          *)
(***************************************************************************)
\* Mutant: the model is built with finite boundary conditions.
infinite_TFIChain_finite ==
    /\ At("infinite", "i56")
    /\ M' = [owner |-> ncalls, L |-> UNIT_CELL_L, J |-> J, g |-> args.g, bc_MPS |-> "finite"]
    /\ log' = Append(log, Ev("TFIChain", ncalls, UNIT_CELL_L, J, args.g))
    /\ pc' = "i58"
    /\ UNCHANGED <<mainVars, callVars, psi, eng, E, S, n, rng, out, ret, fsVars>>

\* lines 55-56
infinite_TFIChain ==
    /\ At("infinite", "i56")
    /\ M' = [owner |-> ncalls, L |-> UNIT_CELL_L, J |-> J, g |-> args.g, bc_MPS |-> "infinite"]
    /\ log' = Append(log, Ev("TFIChain", ncalls, UNIT_CELL_L, J, args.g))
    /\ pc' = "i58"
    /\ UNCHANGED <<mainVars, callVars, psi, eng, E, S, n, rng, out, ret, fsVars>>

\* lines 57-58
infinite_from_product_state ==
    /\ At("infinite", "i58")
    /\ psi' = [NoPsi EXCEPT !.owner = ncalls, !.from = "product_state",
                            !.product_state = Repeat("up", N_sites(M)), !.bc = M.bc_MPS]
    /\ log' = Append(log, Ev("MPS.from_product_state", M.owner, N_sites(M), 0, 0))
    /\ pc' = "i70"
    /\ UNCHANGED <<mainVars, callVars, M, eng, E, S, n, rng, out, ret, fsVars>>

\* lines 59-70
infinite_Engine ==
    /\ At("infinite", "i70")
    /\ eng' = [NoEng EXCEPT !.owner = ncalls, !.psi = psi.owner, !.M = M.owner, !.N_steps = 10]
    /\ log' = Append(log, Ev("tebd.Engine", psi.owner, M.owner, 0, 0))
    /\ pc' = "i71"
    /\ UNCHANGED <<mainVars, callVars, M, psi, E, S, n, rng, out, ret, fsVars>>

\* line 71
infinite_run_GS ==
    /\ At("infinite", "i71")
    /\ psi' = [psi EXCEPT !.runs = @ + 1]
    /\ log' = Append(log, Ev("eng.run_GS", eng.owner, 0, 0, 0))
    /\ pc' = "i72"
    /\ UNCHANGED <<mainVars, callVars, M, eng, E, S, n, rng, out, ret, fsVars>>

\* lines 72-75: E = np.sum(M.bond_energies(psi)), printed as "E (per site)"
infinite_energy ==
    /\ At("infinite", "i72")
    /\ \E be \in bond_energies(M) :
          /\ E' = SumSeq(be)
          /\ log' = Append(log, Ev("M.bond_energies", psi.owner, SumSeq(be), Len(be), 0))
          /\ out' = out \o << <<"E (per site)", SumSeq(be), 0>>, <<"final bond dimensions", 0, 0>> >>
    /\ pc' = "i76"
    /\ UNCHANGED <<mainVars, callVars, M, psi, eng, S, n, rng, ret, fsVars>>

\* lines 76-79
infinite_magnetization ==
    /\ At("infinite", "i76")
    /\ log' = log \o << Ev("psi.expectation_value Sigmax", psi.owner, 0, 0, 0),
                        Ev("psi.expectation_value Sigmaz", psi.owner, 0, 0, 0) >>
    /\ out' = out \o << <<"<sigma_x>", 0, 0>>, <<"<sigma_z>", 0, 0>> >>
    /\ pc' = "i80"
    /\ UNCHANGED <<mainVars, callVars, M, psi, eng, E, S, n, rng, ret, fsVars>>

\* line 80
infinite_correlation_length ==
    /\ At("infinite", "i80")
    /\ log' = Append(log, Ev("psi.correlation_length", psi.owner, 0, 0, 0))
    /\ out' = Append(out, <<"correlation length", 0, 0>>)
    /\ pc' = "i82"
    /\ UNCHANGED <<mainVars, callVars, M, psi, eng, E, S, n, rng, ret, fsVars>>

\* lines 82-85: no condition
infinite_compare_exact ==
    /\ At("infinite", "i82")
    /\ log' = Append(log, Ev("infinite_gs_energy", 0, J, args.g, 0))
    /\ out' = out \o << <<"Analytic result: E (per site)", 0, 0>>, <<"relative error", E, 0>> >>
    /\ pc' = "i86"
    /\ UNCHANGED <<mainVars, callVars, M, psi, eng, E, S, n, rng, ret, fsVars>>

\* line 86
infinite_return ==
    /\ At("infinite", "i86")
    /\ Return([set |-> TRUE, E |-> E, psi |-> psi, M |-> M])

(***************************************************************************)
(* example_TEBD_tf_ising_lightcone, lines 89-132                           *)
(***************************************************************************)
\* int(dt_measure // dt), line 106 (dt > 0)
N_steps(dt) == PyInt(dt_measure \div dt, 1)

\* Mutant: len(range(int(tmax / dt_measure))), without the + 0.5
LoopCount_truncated(tmax) == Max(0, PyInt(tmax, dt_measure))

\* len(range(int(tmax / dt_measure + 0.5))), line 116
LoopCount(tmax) == Max(0, PyInt(2 * tmax + dt_measure, 2 * dt_measure))

\* 'c_tebd_lightcone_{g:.2f}.pdf'.format(g=g), line 130
Filename(g) == <<"c_tebd_lightcone_", Fmt2(g), ".pdf">>

\* lines 92-97: the ground state comes from d_dmrg.example_DMRG_tf_ising_finite(L, g)
lightcone_DMRG ==
    /\ At("lightcone", "t94")
    /\ \E e \in EnergyVals : E' = e * (args.L - 1)
    /\ M' = [owner |-> ncalls, L |-> args.L, J |-> J, g |-> args.g, bc_MPS |-> "finite"]
    /\ psi' = [NoPsi EXCEPT !.owner = ncalls, !.from = "dmrg", !.bc = "finite"]
    /\ log' = Append(log, Ev("example_DMRG_tf_ising_finite", ncalls, args.L, args.g, 0))
    /\ out' = out \o << <<"(run DMRG to get the groundstate)", 0, 0>>, <<"(DMRG finished)", 0, 0>> >>
    /\ pc' = "t100"
    /\ UNCHANGED <<mainVars, callVars, eng, S, n, rng, ret, fsVars>>

\* lines 98-100: i0 = L // 2; psi.apply_local_op(i0, 'Sigmaz', unitary=True)
lightcone_apply_local_op ==
    /\ At("lightcone", "t100")
    /\ psi' = [psi EXCEPT !.ops = Append(@, <<args.L \div 2, "Sigmaz">>)]
    /\ log' = Append(log, Ev("psi.apply_local_op", psi.owner, args.L \div 2, 0, 0))
    /\ pc' = "t114"
    /\ UNCHANGED <<mainVars, callVars, M, eng, E, S, n, rng, out, ret, fsVars>>

\* lines 101-114
lightcone_Engine ==
    /\ At("lightcone", "t114")
    /\ eng' = [owner |-> ncalls, psi |-> psi.owner, M |-> M.owner, dt |-> args.dt,
               N_steps |-> N_steps(args.dt), evolved_time |-> 0]
    /\ log' = Append(log, Ev("tebd.Engine", psi.owner, M.owner, args.dt, N_steps(args.dt)))
    /\ pc' = "t115"
    /\ UNCHANGED <<mainVars, callVars, M, psi, E, S, n, rng, out, ret, fsVars>>

\* Mutant: the loop starts from an empty list, S = [].
lightcone_first_entropy_empty ==
    /\ At("lightcone", "t115")
    /\ S' = <<>>
    /\ pc' = "t116"
    /\ UNCHANGED <<mainVars, callVars, M, psi, eng, E, n, rng, log, out, ret, fsVars>>

\* line 115: S = [psi.entanglement_entropy()]; an entry of S is modelled by the time
\* the state had been evolved for when it was measured.
lightcone_first_entropy ==
    /\ At("lightcone", "t115")
    /\ S' = <<eng.evolved_time>>
    /\ log' = Append(log, Ev("psi.entanglement_entropy", psi.owner, eng.evolved_time, 0, 0))
    /\ pc' = "t116"
    /\ UNCHANGED <<mainVars, callVars, M, psi, eng, E, n, rng, out, ret, fsVars>>

\* line 116: range(int(tmax / dt_measure + 0.5)) is evaluated once
lightcone_range ==
    /\ At("lightcone", "t116")
    /\ rng' = LoopCount(args.tmax)
    /\ n' = 0
    /\ pc' = "for"
    /\ UNCHANGED <<mainVars, callVars, M, psi, eng, E, S, log, out, ret, fsVars>>

\* line 116: the range yields the next n
lightcone_for_next ==
    /\ At("lightcone", "for")
    /\ n < rng
    /\ pc' = "t117"
    /\ UNCHANGED <<mainVars, callVars, M, psi, eng, E, S, n, rng, log, out, ret, fsVars>>

\* line 116: the range is exhausted
lightcone_for_exit ==
    /\ At("lightcone", "for")
    /\ ~(n < rng)
    /\ pc' = "t119"
    /\ UNCHANGED <<mainVars, callVars, M, psi, eng, E, S, n, rng, log, out, ret, fsVars>>

\* line 117
lightcone_run ==
    /\ At("lightcone", "t117")
    /\ eng' = Engine_run(eng)
    /\ psi' = [psi EXCEPT !.runs = @ + 1]
    /\ log' = Append(log, Ev("eng.run", eng.owner, 0, 0, 0))
    /\ pc' = "t118"
    /\ UNCHANGED <<mainVars, callVars, M, E, S, n, rng, out, ret, fsVars>>

\* line 118
lightcone_append_entropy ==
    /\ At("lightcone", "t118")
    /\ S' = Append(S, eng.evolved_time)
    /\ log' = Append(log, Ev("psi.entanglement_entropy", psi.owner, eng.evolved_time, 0, 0))
    /\ n' = n + 1
    /\ pc' = "for"
    /\ UNCHANGED <<mainVars, callVars, M, psi, eng, E, rng, out, ret, fsVars>>

\* lines 119-129: the figure; imshow draws len(S) rows between
\* -0.5 * dt_measure and eng.evolved_time + 0.5 * dt_measure (twice the values, to
\* stay in integers)
lightcone_plot ==
    /\ At("lightcone", "t119")
    /\ log' = log \o << Ev("plt.figure", 0, 0, 0, 0),
                        Ev("plt.imshow", 0, Len(S), -dt_measure, 2 * eng.evolved_time + dt_measure),
                        Ev("plt.ylim", 0, 0, args.tmax, 0),
                        Ev("plt.colorbar", 0, 0, 0, 0) >>
    /\ pc' = "t131"
    /\ UNCHANGED <<mainVars, callVars, M, psi, eng, E, S, n, rng, out, ret, fsVars>>

\* Mutant: the file name also carries L.
lightcone_savefig_L ==
    /\ At("lightcone", "t131")
    /\ files' = files \cup {<<"c_tebd_lightcone_", Fmt2(args.g) + 1000 * args.L, ".pdf">>}
    /\ written' = Append(written, <<"c_tebd_lightcone_", Fmt2(args.g) + 1000 * args.L, ".pdf">>)
    /\ lastSave' = [set |-> TRUE, inv |-> ncalls,
                    name |-> <<"c_tebd_lightcone_", Fmt2(args.g) + 1000 * args.L, ".pdf">>,
                    L |-> args.L, g |-> args.g, tmax |-> args.tmax, dt |-> args.dt,
                    replaced |-> "nothing"]
    /\ log' = Append(log, Ev("plt.savefig", 0, Fmt2(args.g), 0, 0))
    /\ pc' = "t132"
    /\ UNCHANGED <<mainVars, callVars, M, psi, eng, E, S, n, rng, out, ret>>

\* lines 130-131
lightcone_savefig ==
    /\ At("lightcone", "t131")
    /\ files' = files \cup {Filename(args.g)}
    /\ written' = Append(written, Filename(args.g))
    /\ lastSave' = [set |-> TRUE, inv |-> ncalls, name |-> Filename(args.g), L |-> args.L,
                    g |-> args.g, tmax |-> args.tmax, dt |-> args.dt,
                    replaced |->
                        IF Filename(args.g) \notin files THEN "nothing"
                        ELSE IF lastSave.name # Filename(args.g) THEN "an older plot"
                        ELSE IF <<lastSave.L, lastSave.tmax, lastSave.dt>>
                                    = <<args.L, args.tmax, args.dt>>
                             THEN "the last plot, of the same L, tmax, dt"
                             ELSE "the last plot, of another L, tmax or dt"]
    /\ log' = Append(log, Ev("plt.savefig", 0, Fmt2(args.g), 0, 0))
    /\ pc' = "t132"
    /\ UNCHANGED <<mainVars, callVars, M, psi, eng, E, S, n, rng, out, ret>>

\* line 132, and the end of the function
lightcone_print_saved ==
    /\ At("lightcone", "t132")
    /\ out' = Append(out, <<"saved", Fmt2(args.g), 0>>)
    /\ status' = "idle"
    /\ pc' = "returned"
    /\ ret' = NoRet
    /\ UNCHANGED <<mainVars, ncalls, fn, args, M, psi, eng, E, S, n, rng, log, fsVars>>

(***************************************************************************)
(* An external call raises: nothing in the file catches it.                *)
(***************************************************************************)
ExternalCallPcs == {"f19", "f21", "f33", "f34", "f36", "f40", "f44",
                    "i56", "i58", "i70", "i71", "i72", "i76", "i80", "i82",
                    "t94", "t100", "t114", "t115", "t117", "t118", "t119", "t131"}

Raise ==
    /\ status = "running"
    /\ pc \in ExternalCallPcs
    /\ (pc = "f44" => compare_to_exact(args.L))
    /\ status' = "failed"
    /\ UNCHANGED <<mainVars, ncalls, fn, pc, args, M, psi, eng, E, S, n, rng, log, out,
                   ret, fsVars>>

(***************************************************************************)
(* The __main__ block, lines 135-140, and an importing caller.             *)
(***************************************************************************)
\* line 136
main_136 ==
    /\ entry = "script" /\ mainpc = "m136" /\ status = "idle"
    /\ Call_finite(10, 1000)
    /\ mainCalls' = Append(mainCalls, <<"finite", [NoArgs EXCEPT !.L = 10, !.g = 1000]>>)
    /\ mainpc' = "m138"
    /\ UNCHANGED <<entry, nsep>>

\* Mutant: the block goes on after the first driver raised (try/except around line 136).
main_138_after_failure ==
    /\ entry = "script" /\ mainpc = "m138" /\ status \in {"idle", "failed"}
    /\ Call_infinite(1500)
    /\ mainCalls' = Append(mainCalls, <<"infinite", [NoArgs EXCEPT !.g = 1500]>>)
    /\ nsep' = nsep + 1
    /\ mainpc' = "m140"
    /\ UNCHANGED entry

\* lines 137-138
main_138 ==
    /\ entry = "script" /\ mainpc = "m138" /\ status = "idle"
    /\ Call_infinite(1500)
    /\ mainCalls' = Append(mainCalls, <<"infinite", [NoArgs EXCEPT !.g = 1500]>>)
    /\ nsep' = nsep + 1
    /\ mainpc' = "m140"
    /\ UNCHANGED entry

\* lines 139-140
main_140 ==
    /\ entry = "script" /\ mainpc = "m140" /\ status = "idle"
    /\ Call_lightcone(20, 1500, 3000, 10)
    /\ mainCalls' = Append(mainCalls,
                           <<"lightcone", [L |-> 20, g |-> 1500, tmax |-> 3000, dt |-> 10]>>)
    /\ nsep' = nsep + 1
    /\ mainpc' = "end"
    /\ UNCHANGED entry

\* the module is imported (line 135 is false) and a caller invokes the drivers
import_finite ==
    /\ entry = "import" /\ status = "idle" /\ ncalls < MaxCalls
    /\ \E L \in LVals, g \in GVals : Call_finite(L, g)
    /\ UNCHANGED mainVars

import_infinite ==
    /\ entry = "import" /\ status = "idle" /\ ncalls < MaxCalls
    /\ \E g \in GVals : Call_infinite(g)
    /\ UNCHANGED mainVars

import_lightcone ==
    /\ entry = "import" /\ status = "idle" /\ ncalls < MaxCalls
    /\ \E L \in LightconeLVals, g \in GVals, tmax \in TmaxVals, dt \in DtVals :
          Call_lightcone(L, g, tmax, dt)
    /\ UNCHANGED mainVars

(***************************************************************************)
(* The specification.                                                      *)
(***************************************************************************)
Init ==
    /\ entry \in {"script", "import"}
    /\ mainpc = IF entry = "script" THEN "m136" ELSE "imported"
    /\ mainCalls = <<>>
    /\ nsep = 0
    /\ ncalls = 0
    /\ status = "idle"
    /\ fn = "none"
    /\ pc = "none"
    /\ args = NoArgs
    /\ M = NoM
    /\ psi = NoPsi
    /\ eng = NoEng
    /\ E = 0
    /\ S = <<>>
    /\ n = 0
    /\ rng = 0
    /\ log = <<>>
    /\ out = <<>>
    /\ ret = NoRet
    /\ files = {}
    /\ written = <<>>
    /\ lastSave = NoSave

Next ==
    \/ main_136 \/ main_138 \/ main_140
    \/ import_finite \/ import_infinite \/ import_lightcone
    \/ finite_TFIChain \/ finite_from_product_state \/ finite_Engine \/ finite_run_GS
    \/ finite_energy \/ finite_magnetization \/ finite_compare_exact \/ finite_skip_exact
    \/ finite_return
    \/ infinite_TFIChain \/ infinite_from_product_state \/ infinite_Engine
    \/ infinite_run_GS \/ infinite_energy \/ infinite_magnetization
    \/ infinite_correlation_length \/ infinite_compare_exact \/ infinite_return
    \/ lightcone_DMRG \/ lightcone_apply_local_op \/ lightcone_Engine
    \/ lightcone_first_entropy \/ lightcone_range \/ lightcone_for_next
    \/ lightcone_for_exit \/ lightcone_run \/ lightcone_append_entropy
    \/ lightcone_plot \/ lightcone_savefig \/ lightcone_print_saved
    \/ Raise

Spec == Init /\ [][Next]_vars

\* A driver that is running executes its next statement, unless an external call
\* raises.
DriverStep ==
    \/ finite_TFIChain \/ finite_from_product_state \/ finite_Engine \/ finite_run_GS
    \/ finite_energy \/ finite_magnetization \/ finite_compare_exact \/ finite_skip_exact
    \/ finite_return
    \/ infinite_TFIChain \/ infinite_from_product_state \/ infinite_Engine
    \/ infinite_run_GS \/ infinite_energy \/ infinite_magnetization
    \/ infinite_correlation_length \/ infinite_compare_exact \/ infinite_return
    \/ lightcone_DMRG \/ lightcone_apply_local_op \/ lightcone_Engine
    \/ lightcone_first_entropy \/ lightcone_range \/ lightcone_for_next
    \/ lightcone_for_exit \/ lightcone_run \/ lightcone_append_entropy
    \/ lightcone_plot \/ lightcone_savefig \/ lightcone_print_saved

FairSpec == Init /\ [][Next]_vars /\ WF_vars(DriverStep)

(***************************************************************************)
(* Properties.                                                             *)
(***************************************************************************)
Count(l, name) == Cardinality({i \in 1..Len(l) : l[i].ev = name})
Positions(l, name) == {i \in 1..Len(l) : l[i].ev = name}
Printed(text) == \E i \in 1..Len(out) : out[i][1] = text

IsLightconeKey(e) == e.ev \in {"example_DMRG_tf_ising_finite", "psi.apply_local_op",
                               "tebd.Engine", "psi.entanglement_entropy", "eng.run"}

\* The k-th of the events DMRG, Sigmaz, Engine, entropy, (run, entropy)*
LightconeOrder(k) ==
    CASE k = 1 -> "example_DMRG_tf_ising_finite"
      [] k = 2 -> "psi.apply_local_op"
      [] k = 3 -> "tebd.Engine"
      [] k >= 4 /\ k % 2 = 0 -> "psi.entanglement_entropy"
      [] OTHER -> "eng.run"

InLoop == pc \in {"for", "t117", "t118", "t119", "t131", "t132", "returned"}

\* C1: in the lightcone driver the ground state is obtained first, Sigmaz is then
\* applied once at site L // 2, then the engine is created, the entropy is recorded
\* once, and every eng.run() is followed by one more recording; S holds n + 1 entries
\* after n completed iterations and no operator is applied once the evolution started.
C1_LightconeOrder ==
    fn = "lightcone" =>
        LET keys == SelectSeq(log, IsLightconeKey)
        IN  /\ \A k \in 1..Len(keys) :
                  /\ keys[k].ev = LightconeOrder(k)
                  /\ (k = 2 => keys[k].a = args.L \div 2)
            /\ Len(psi.ops) <= 1
            /\ (psi.runs > 0 => Len(psi.ops) = 1)
            /\ (InLoop => /\ Len(S) = n + 1
                          /\ Count(log, "psi.entanglement_entropy") = n + 1
                          /\ Count(log, "eng.run") = IF pc = "t118" THEN n + 1 ELSE n)

C1_Witness ==
    /\ fn = "lightcone" /\ status = "running" /\ pc = "for"
    /\ n = 2 /\ Len(S) = 3 /\ args.L = 19 /\ psi.ops = << <<9, "Sigmaz">> >>

\* C2: the E of the infinite driver (printed as per site, compared to the analytic
\* per-site energy, returned) is the total of the bond energies divided by the number
\* of sites of the unit cell.
C2_EnergyPerSite ==
    (fn = "infinite" /\ pc \in {"i76", "i80", "i82", "i86", "returned"}) =>
        \A i \in Positions(log, "M.bond_energies") : E * N_sites(M) = log[i].a

\* C3: the finite driver calls finite_gs_energy(L, 1., g) and prints the relative
\* error exactly when L < 20, after run_GS and the measurements, and returns
\* (E, psi, M) with E the sum of the bond energies either way.
C3_FiniteCompare ==
    fn = "finite" =>
        /\ \A i \in Positions(log, "finite_gs_energy") :
              /\ args.L <= 19
              /\ log[i].a = args.L /\ log[i].b = 1000 /\ log[i].c = args.g
              /\ i = Len(log)
              /\ \E r, b, x, z \in 1..(i - 1) :
                    /\ r < b /\ b < x /\ x < z
                    /\ log[r].ev = "eng.run_GS"
                    /\ log[b].ev = "M.bond_energies"
                    /\ log[x].ev = "psi.expectation_value Sigmax"
                    /\ log[z].ev = "psi.expectation_value Sigmaz"
        /\ (pc \in {"f49", "returned"} =>
              /\ (Count(log, "finite_gs_energy") = 1) = (args.L <= 19)
              /\ Count(log, "finite_gs_energy") <= 1
              /\ Printed("relative error") = (args.L <= 19)
              /\ Printed("Exact diagonalization: E") = (args.L <= 19))
        /\ (pc = "returned" =>
              /\ status = "idle"
              /\ ret.set /\ ret.psi = psi /\ ret.M = M /\ ret.E = E
              /\ \E i \in Positions(log, "M.bond_energies") :
                    ret.E = log[i].a /\ log[i].b = args.L - 1)

C3_Witness ==
    /\ fn = "finite" /\ pc = "returned" /\ status = "idle" /\ args.L = 19
    /\ Count(log, "finite_gs_energy") = 1 /\ Printed("relative error")
    /\ ret.set /\ ret.E = -36

MainProgram ==
    << <<"finite", [L |-> 10, g |-> 1000, tmax |-> 0, dt |-> 0]>>,
       <<"infinite", [L |-> 0, g |-> 1500, tmax |-> 0, dt |-> 0]>>,
       <<"lightcone", [L |-> 20, g |-> 1500, tmax |-> 3000, dt |-> 10]>> >>

OwnObjects ==
    /\ \A i \in 1..Len(log) : log[i].inv = ncalls /\ log[i].obj \in {0, ncalls}
    /\ M.owner \in {0, ncalls}
    /\ psi.owner \in {0, ncalls}
    /\ eng.owner \in {0, ncalls} /\ eng.psi \in {0, ncalls} /\ eng.M \in {0, ncalls}
    /\ (fn = "lightcone" /\ psi.owner # 0 => psi.from = "dmrg")

C4_Invocations ==
    entry = "script" =>
        /\ Len(mainCalls) <= 3
        /\ \A i \in 1..Len(mainCalls) : mainCalls[i] = MainProgram[i]
        /\ ncalls = Len(mainCalls)
        /\ (ncalls > 0 => fn = mainCalls[ncalls][1] /\ args = mainCalls[ncalls][2])
        /\ (mainpc = "end" /\ status = "idle" => ncalls = 3)
        /\ OwnObjects

C4_StartsAfterReturn ==
    ncalls' # ncalls =>
        /\ ncalls' = ncalls + 1
        /\ status = "idle"
        /\ (ncalls > 0 => pc = "returned")

\* C4: run as a script, the file calls example_TEBD_gs_tf_ising_finite(L=10, g=1.),
\* example_TEBD_gs_tf_ising_infinite(g=1.5) and
\* example_TEBD_tf_ising_lightcone(L=20, g=1.5, tmax=3., dt=0.01), in this order, each
\* after the one before it has returned, and no driver uses a state, model or engine
\* made during an earlier invocation.
C4_MainOrder == []C4_Invocations /\ [][C4_StartsAfterReturn]_vars

C4_Witness ==
    /\ entry = "script" /\ mainpc = "end" /\ status = "idle" /\ pc = "returned"
    /\ fn = "lightcone" /\ ncalls = 3 /\ Len(S) = 61

C5_NothingAfterFailure ==
    status = "failed" =>
        /\ pc \in ExternalCallPcs
        /\ (fn = "lightcone" => written = <<>> /\ ~Printed("saved"))
        /\ (entry = "script" => Len(mainCalls) = ncalls)

\* C5: an exception raised by an external call is not caught: nothing runs after it,
\* neither the rest of the driver nor a later driver; a failure in the lightcone
\* driver up to plt.savefig leaves no file written and no 'saved' line.
C5_FailurePropagates == []C5_NothingAfterFailure /\ [][status # "failed"]_vars

C5_Witness ==
    /\ entry = "script" /\ status = "failed" /\ fn = "lightcone" /\ pc = "t117"
    /\ n = 3 /\ mainpc = "end" /\ files = {}

C6_Files ==
    /\ \A f \in files : \E g \in GVals \cup {1500} : f = <<"c_tebd_lightcone_", Fmt2(g), ".pdf">>
    /\ (fn \in {"finite", "infinite"} => written = <<>>)
    /\ (fn = "lightcone" =>
          /\ Len(written) <= 1
          /\ (written # <<>> =>
                /\ pc \in {"t132", "returned"}
                /\ written[1] = <<"c_tebd_lightcone_", Fmt2(args.g), ".pdf">>
                /\ written[1] \in files
                /\ n = rng /\ Count(log, "eng.run") = rng
                /\ log[Len(log)].ev = "plt.savefig")
          /\ (pc = "returned" => Len(written) = 1))
    /\ (lastSave.set => lastSave.name = <<"c_tebd_lightcone_", Fmt2(lastSave.g), ".pdf">>)

C6_SameTarget ==
    (pc = "t131" /\ pc' = "t132" /\ lastSave.set /\ Fmt2(lastSave.g) = Fmt2(args.g)) =>
        /\ files' = files
        /\ lastSave'.name = lastSave.name
        /\ lastSave'.replaced \in {"the last plot, of the same L, tmax, dt",
                                   "the last plot, of another L, tmax or dt"}

\* C6: the only file written is the lightcone plot: one per successful call of the
\* lightcone driver, after the last eng.run(), named c_tebd_lightcone_<g:.2f>.pdf
\* whatever L, tmax and dt are, so that a second call with the same g replaces the
\* file; the finite and the infinite driver write nothing.
C6_OnlyThePlot == []C6_Files /\ [][C6_SameTarget]_vars

C6_Witness ==
    /\ fn = "lightcone" /\ pc = "returned" /\ ncalls = 2 /\ lastSave.inv = 2
    /\ Cardinality(files) = 1
    /\ lastSave.replaced = "the last plot, of another L, tmax or dt"

IsMeasurement(e) == e.ev \in {"M.bond_energies", "psi.expectation_value Sigmax",
                              "psi.expectation_value Sigmaz", "psi.correlation_length"}

\* C7: the infinite driver builds the model with L = 2 and infinite boundary
\* conditions, starts from "up" on each site of the unit cell, runs run_GS once
\* before any measurement, and compares with infinite_gs_energy(1., g) once,
\* whatever g.
C7_InfiniteShape ==
    fn = "infinite" =>
        /\ (M.owner # 0 => M.L = 2 /\ M.bc_MPS = "infinite" /\ M.g = args.g /\ M.J = 1000)
        /\ (psi.owner # 0 =>
              /\ Len(psi.product_state) = N_sites(M)
              /\ \A i \in 1..Len(psi.product_state) : psi.product_state[i] = "up"
              /\ psi.bc = "infinite")
        /\ \A i \in 1..Len(log) :
              IsMeasurement(log[i]) => \E r \in 1..(i - 1) : log[r].ev = "eng.run_GS"
        /\ Count(log, "eng.run_GS") <= 1
        /\ (pc \in {"i72", "i76", "i80", "i82", "i86", "returned"} =>
              Count(log, "eng.run_GS") = 1)
        /\ (pc \in {"i86", "returned"} =>
              /\ Count(log, "infinite_gs_energy") = 1
              /\ \A i \in Positions(log, "infinite_gs_energy") :
                    log[i].a = 1000 /\ log[i].b = args.g)

C7_Witness ==
    /\ fn = "infinite" /\ pc = "returned" /\ status = "idle" /\ args.g = 1004
    /\ Count(log, "infinite_gs_energy") = 1 /\ Count(log, "eng.run_GS") = 1

\* C8: every eng.run() of the lightcone driver advances the evolved time by
\* dt_measure = 0.05: after n iterations eng.evolved_time is n * dt_measure, row k of
\* S was measured at time k * dt_measure, and the extent of the heatmap,
\* [-dt_measure / 2, eng.evolved_time + dt_measure / 2], is len(S) rows of height
\* dt_measure.
C8_MeasureInterval ==
    (fn = "lightcone" /\ pc \in {"for", "t119", "t131", "t132", "returned"}) =>
        /\ eng.evolved_time = n * 50
        /\ \A k \in 1..Len(S) : S[k] = (k - 1) * 50
        /\ \A i \in Positions(log, "plt.imshow") : log[i].c - log[i].b = 2 * 50 * log[i].a

C9_Iterations ==
    fn = "lightcone" =>
        /\ (InLoop =>
              /\ rng = Max(0, (2 * args.tmax + 50) \div 100)
              /\ (args.tmax < 25 => rng = 0)
              /\ n <= rng
              /\ (pc \in {"t117", "t118"} => n < rng))
        /\ (pc \in {"t119", "t131", "t132", "returned"} =>
              n = rng /\ Count(log, "eng.run") = rng /\ Len(S) = rng + 1)
        /\ (pc = "returned" =>
              /\ Count(log, "plt.imshow") = 1
              /\ Count(log, "plt.savefig") = 1
              /\ Len(written) = 1)

C9_Terminates ==
    (fn = "lightcone" /\ status = "running") ~>
        (fn = "lightcone" /\ (status = "failed" \/ (status = "idle" /\ pc = "returned")))

\* C9: the loop of the lightcone driver ends after floor(tmax / dt_measure + 1/2)
\* iterations, none if that is not positive; the number is fixed when the loop starts
\* and depends on tmax alone; unless an external call raises, the driver then draws
\* and saves the plot once and returns, also after zero iterations.
C9_LoopTerminates == []C9_Iterations /\ C9_Terminates

C9_Witness ==
    /\ fn = "lightcone" /\ pc = "returned" /\ status = "idle"
    /\ args.tmax = 24 /\ rng = 0 /\ S = <<0>> /\ Len(written) = 1

\* C10: for every dt > 0 the N_steps handed to the engine is at least 1, so that
\* the evolved time is positive after the first iteration.
C10_AtLeastOneStep ==
    (fn = "lightcone" /\ eng.owner # 0) =>
        /\ eng.N_steps >= 1
        /\ (n >= 1 => eng.evolved_time > 0)

====
